---- MODULE Spec2Model ----
(***************************************************************************)
(* HoverShell front end: the terminal store (stores/terminalStore.ts), the *)
(* App component that renders one Terminal for the active session, and the *)
(* Terminal component's line editor (components/Terminal.tsx); and the     *)
(* edge-dwell part of the Trigger Coordinator, whose code is outside the   *)
(* front end and is modelled from its specification.                       *)
(*                                                                         *)
(* Strings the editor works on are sequences of one-character strings.     *)
(* A session id `terminal_${Date.now()}` is the pair <<"terminal", now>>.  *)
(***************************************************************************)
EXTENDS Integers, Sequences, FiniteSets, TLC

VARIABLES
    terminals,         \* store: TerminalSession[]
    activeTerminalId,  \* store: string | null
    isLoading,         \* store
    error,             \* store: string | null
    pending,           \* invoke calls awaiting the backend's answer
    now,               \* the value Date.now() returns
    isVisible,         \* App: useState(false)
    initializeApp,     \* App: the call initializeApp has made last
    isCommandPaletteOpen, \* App: useState(false)
    commandsActiveTerminalId, \* CommandPalette: the activeTerminalId that the
                       \* entries of its commands state act on; Null without a palette
    input,             \* Terminal: useState('')
    cursorPosition,    \* Terminal: useState(0)
    commandHistory,    \* Terminal: useState([])
    historyIndex,      \* Terminal: useState(-1)
    unsent,            \* observer: the buffer as it was when browsing began
    pointerInZone,     \* coordinator: the last pointer sample was in the edge zone
    inZoneSince,       \* observer: when the pointer's present stay in the zone began
    dwellTimer,        \* coordinator: DwellTimer of the edge binding, or Null
    events,            \* timer_elapsed messages fired and not yet delivered
    visibility,        \* coordinator: VisibilityState
    pendingToggle,     \* coordinator: the trigger queued during a transition
    providers,         \* app store: Provider[]
    defaultProvider,   \* app store: string | null
    appIsLoading,      \* app store: isLoading
    appError,          \* app store: error
    appPending,        \* app store: invoke calls awaiting the backend's answer
    retryHook,         \* useAsyncWithRetry: its state and the execute call running
    cacheHook,         \* useAsyncWithCache: its state, cacheRef and the calls running
    debounceHook,      \* useAsyncDebounced: its state, timeoutRef and the promises
    last               \* observer: the last handler run and what it handed out

storeVars  == <<terminals, activeTerminalId, isLoading, error, pending>>
editorVars == <<input, cursorPosition, commandHistory, historyIndex, unsent>>
coordinatorVars == <<pointerInZone, inZoneSince, dwellTimer, events, visibility, pendingToggle>>
hookVars == <<retryHook, cacheHook, debounceHook>>
providerVars == <<providers, defaultProvider, appIsLoading, appError, appPending>>
vars == <<terminals, activeTerminalId, isLoading, error, pending, now, isVisible,
          initializeApp, isCommandPaletteOpen, commandsActiveTerminalId,
          input, cursorPosition, commandHistory, historyIndex, unsent,
          pointerInZone, inZoneSince, dwellTimer, events, visibility, pendingToggle,
          providers, defaultProvider, appIsLoading, appError, appPending,
          retryHook, cacheHook, debounceHook, last>>

(***************************** bounds **************************************)
MaxClock == 3
MaxTerminals == 3
MaxOutput == 2
MaxPending == 1
MaxInput == 2
MaxHistory == 2
StoreMaxTerminals == 2
AppMaxTerminals == 2
AppMaxInput == 1
AppMaxHistory == 1

(***************************** values **************************************)
Null == <<>>
NoError == "null"
BackendError == "invoke rejected"
None == <<"none">>
NoBrowse == <<"not browsing">>
Chars == {"a", "c", "v", " "}
\* case 'c' and case 'v': with no modifier they break without inserting
CopyPasteKeys == {"c", "v"}
Whitespace == {" "}
Commands == {"ls"}
Undefined == [given |-> FALSE, v |-> <<>>]
Given(v) == [given |-> TRUE, v |-> v]
CreateArgs == {<<Undefined, Undefined>>, <<Given(<<>>), Undefined>>,
               <<Given(<<"dev">>), Given(<<"/tmp">>)>>}

Max(a, b) == IF a >= b THEN a ELSE b
Min(a, b) == IF a <= b THEN a ELSE b

\* `terminal_${Date.now()}`
TerminalId(t) == <<"terminal", t>>
\* the id of the session the backend reports, when it reports one
BackendId == <<"backend", 1>>
Ids == {TerminalId(t) : t \in 1..MaxClock} \cup {BackendId}

\* a || b on strings: the empty string and undefined are falsy
OrElse(a, b) == IF a.given /\ a.v # <<>> THEN a.v ELSE b

\* `Terminal ${n}`
DefaultTitle(n) == <<"Terminal", n>>

\* String.prototype.slice(start, end) for 0 <= start, end
Slice(s, start, end) == SubSeq(s, Min(start, Len(s)) + 1, Min(end, Len(s)))
SliceFrom(s, start) == Slice(s, start, Len(s))

\* String.prototype.trim()
RECURSIVE TrimStart(_)
TrimStart(s) == IF s # <<>> /\ Head(s) \in Whitespace THEN TrimStart(Tail(s)) ELSE s
RECURSIVE TrimEnd(_)
TrimEnd(s) ==
    IF s # <<>> /\ s[Len(s)] \in Whitespace THEN TrimEnd(SubSeq(s, 1, Len(s) - 1)) ELSE s
Trim(s) == TrimEnd(TrimStart(s))

\* Array.prototype.filter / map / findIndex on the session list
RECURSIVE FilterOut(_, _)
FilterOut(ts, id) ==
    IF ts = <<>> THEN <<>>
    ELSE IF Head(ts).id # id THEN <<Head(ts)>> \o FilterOut(Tail(ts), id)
    ELSE FilterOut(Tail(ts), id)
FirstIdOrNull(ts) == IF ts # <<>> THEN ts[1].id ELSE Null

KnownIds == {terminals[i].id : i \in 1..Len(terminals)}

(************************ the Terminal component ***************************)
\* App renders <Terminal> only while it is visible and a session exists.
Mounted == isVisible /\ Len(terminals) > 0
EditorInit ==
    /\ input = <<>>
    /\ cursorPosition = 0
    /\ commandHistory = <<>>
    /\ historyIndex = -1
    /\ unsent = NoBrowse
\* The component keeps its state across renders and loses it when unmounted.
Rerender ==
    IF isVisible' /\ Len(terminals') > 0
    THEN UNCHANGED editorVars
    ELSE /\ input' = <<>>
         /\ cursorPosition' = 0
         /\ commandHistory' = <<>>
         /\ historyIndex' = -1
         /\ unsent' = NoBrowse

Did(op) == last' = [op |-> op, out |-> None]

\* The coordinator starts hidden, the pointer away from the edge, no timer armed.
CoordinatorInit ==
    /\ pointerInZone = FALSE
    /\ inZoneSince = <<>>
    /\ dwellTimer = <<>>
    /\ events = <<>>
    /\ visibility = "Hidden"
    /\ pendingToggle = "none"

\* useAppStore's initial state
ProvidersInit ==
    /\ providers = <<>>
    /\ defaultProvider = Null
    /\ appIsLoading = FALSE
    /\ appError = NoError
    /\ appPending = <<>>

\* the hooks as their first render leaves them (immediate = false)
RetryInit ==
    retryHook = [loading |-> FALSE, error |-> Null, data |-> Null, retryCount |-> 0,
                 phase |-> "idle", currentRetry |-> 0, invocations |-> 0]

CacheInit ==
    cacheHook = [loading |-> FALSE, error |-> Null, data |-> Null, fromCache |-> FALSE,
                 cache |-> <<>>, calls |-> <<>>, invalidated |-> {}]

DebounceInit ==
    debounceHook = [loading |-> FALSE, error |-> Null, data |-> Null,
                    timeoutRef |-> 0, calls |-> <<>>]

HooksInit == RetryInit /\ CacheInit /\ DebounceInit

(****************************** the store **********************************)
Init ==
    /\ terminals = <<>>
    /\ activeTerminalId = Null
    /\ isLoading = FALSE
    /\ error = NoError
    /\ pending = <<>>
    /\ now = 1
    /\ isVisible = FALSE
    /\ initializeApp = "loadConfig"
    /\ isCommandPaletteOpen = FALSE
    /\ commandsActiveTerminalId = Null
    /\ EditorInit
    /\ CoordinatorInit
    /\ ProvidersInit
    /\ HooksInit
    /\ last = [op |-> "init", out |-> None]

\* Time passes: Date.now() never goes back.
Tick ==
    /\ now < MaxClock
    /\ now' = now + 1
    /\ UNCHANGED <<storeVars, isVisible, initializeApp, isCommandPaletteOpen, commandsActiveTerminalId, editorVars, coordinatorVars, providerVars, hookVars, last>>

NewTerminal(title, workingDirectory) ==
    [id |-> TerminalId(now),
     title |-> OrElse(title, DefaultTitle(Len(terminals) + 1)),
     working_directory |-> OrElse(workingDirectory, <<"/">>),
     is_active |-> FALSE,
     output |-> <<>>]

CreateTerminalCall(title, workingDirectory) ==
    /\ Len(terminals) < MaxTerminals
    /\ terminals' = Append(terminals, NewTerminal(title, workingDirectory))
    /\ activeTerminalId' = TerminalId(now)
    /\ isLoading' = FALSE
    /\ error' = NoError
    /\ Did("createTerminal")
    /\ UNCHANGED <<pending, now, coordinatorVars, providerVars, hookVars, isVisible, initializeApp>>
    /\ Rerender

createTerminal(title, workingDirectory) ==
    /\ CreateTerminalCall(title, workingDirectory)
    /\ UNCHANGED <<isCommandPaletteOpen, commandsActiveTerminalId>>

CloseActiveId(remaining, id) ==
    IF activeTerminalId = id THEN FirstIdOrNull(remaining) ELSE activeTerminalId

\* observer: a sendInput in flight for a session that is being closed is
\* marked, so that its completion can be told from one for a live session
MarkClosed(calls, id) ==
    [k \in 1..Len(calls) |->
        IF /\ calls[k].cmd = "send_terminal_input"
           /\ calls[k].terminalId = id
           /\ id \in KnownIds
        THEN [calls[k] EXCEPT !.closed = TRUE]
        ELSE calls[k]]

CloseTerminalCall(id) ==
    /\ terminals' = FilterOut(terminals, id)
    /\ activeTerminalId' = CloseActiveId(FilterOut(terminals, id), id)
    /\ isLoading' = FALSE
    /\ error' = NoError
    /\ pending' = MarkClosed(pending, id)
    /\ Did("closeTerminal")
    /\ UNCHANGED <<now, coordinatorVars, providerVars, hookVars, isVisible, initializeApp>>
    /\ Rerender

closeTerminal(id) ==
    /\ CloseTerminalCall(id)
    /\ UNCHANGED <<isCommandPaletteOpen, commandsActiveTerminalId>>

Activate(t, id) == [t EXCEPT !.is_active = (t.id = id)]

setActiveTerminal(id) ==
    /\ terminals' = [i \in 1..Len(terminals) |-> Activate(terminals[i], id)]
    /\ activeTerminalId' = id
    /\ isLoading' = FALSE
    /\ error' = NoError
    /\ Did("setActiveTerminal")
    /\ UNCHANGED <<pending, now, coordinatorVars, providerVars, hookVars, isVisible, initializeApp, isCommandPaletteOpen, commandsActiveTerminalId>>
    /\ Rerender

\* t.output + `$ ${input}\n`, one line per element
InputLine(text) == <<"$", text>>
\* `Executing: ${command}\n`
ExecutingLine(command) == <<"Executing:", command>>

AppendOutput(ts, terminalId, line) ==
    [i \in 1..Len(ts) |->
        IF ts[i].id = terminalId
        THEN [ts[i] EXCEPT !.output = Append(ts[i].output, line)]
        ELSE ts[i]]

OutputRoom(terminalId) ==
    \A i \in 1..Len(terminals) :
        terminals[i].id = terminalId => Len(terminals[i].output) < MaxOutput

\* sendInput up to its await: the call is with the backend
sendInputStart(terminalId, text) ==
    /\ Len(pending) < MaxPending
    /\ isLoading' = TRUE
    /\ error' = NoError
    /\ pending' = Append(pending, [cmd |-> "send_terminal_input",
                                   terminalId |-> terminalId, input |-> text,
                                   closed |-> FALSE])
    /\ Did("sendInput")
    /\ UNCHANGED <<terminals, activeTerminalId, now, coordinatorVars, providerVars, hookVars, isVisible, initializeApp, isCommandPaletteOpen, commandsActiveTerminalId>>
    /\ Rerender

Without(s, k) == SubSeq(s, 1, k - 1) \o SubSeq(s, k + 1, Len(s))

\* invoke('send_terminal_input') resolved
sendInputResolve(k) ==
    /\ k \in 1..Len(pending)
    /\ pending[k].cmd = "send_terminal_input"
    /\ OutputRoom(pending[k].terminalId)
    /\ terminals' = AppendOutput(terminals, pending[k].terminalId, InputLine(pending[k].input))
    /\ isLoading' = FALSE
    /\ pending' = Without(pending, k)
    /\ Did("sendInput resolved")
    /\ UNCHANGED <<activeTerminalId, error, now, coordinatorVars, providerVars, hookVars, isVisible, initializeApp, isCommandPaletteOpen, commandsActiveTerminalId>>
    /\ Rerender

\* invoke('send_terminal_input') rejected
sendInputReject(k) ==
    /\ k \in 1..Len(pending)
    /\ pending[k].cmd = "send_terminal_input"
    /\ error' = BackendError
    /\ isLoading' = FALSE
    /\ pending' = Without(pending, k)
    /\ Did("sendInput rejected")
    /\ UNCHANGED <<terminals, activeTerminalId, now, coordinatorVars, providerVars, hookVars, isVisible, initializeApp, isCommandPaletteOpen, commandsActiveTerminalId>>
    /\ Rerender

\* what invoke('get_terminal_state') can answer: the backend's own sessions
BackendSession ==
    [id |-> BackendId, title |-> <<"zsh">>, working_directory |-> <<"/">>,
     is_active |-> TRUE, output |-> <<>>]
BackendStates == {<<>>, <<BackendSession>>}

\* loadTerminals up to its await
loadTerminalsStart ==
    /\ Len(pending) < MaxPending
    /\ isLoading' = TRUE
    /\ error' = NoError
    /\ pending' = Append(pending, [cmd |-> "get_terminal_state",
                                   terminalId |-> Null, input |-> ""])
    /\ Did("loadTerminals")
    /\ UNCHANGED <<terminals, activeTerminalId, now, coordinatorVars, providerVars, hookVars, isVisible, initializeApp, isCommandPaletteOpen, commandsActiveTerminalId>>
    /\ Rerender

\* terminals.find(t => t.is_active)?.id || terminals[0]?.id || null
LoadedActiveId(ts) ==
    IF \E i \in 1..Len(ts) : ts[i].is_active
    THEN ts[CHOOSE i \in 1..Len(ts) :
                /\ ts[i].is_active
                /\ \A j \in 1..(i - 1) : ~ts[j].is_active].id
    ELSE FirstIdOrNull(ts)

\* the store's list after get_terminal_state answered with `loaded`
LoadedTerminals(loaded) == loaded

\* invoke('get_terminal_state') resolved
loadTerminalsResolve(k, loaded) ==
    /\ k \in 1..Len(pending)
    /\ pending[k].cmd = "get_terminal_state"
    /\ terminals' = LoadedTerminals(loaded)
    /\ activeTerminalId' = LoadedActiveId(loaded)
    /\ isLoading' = FALSE
    /\ pending' = Without(pending, k)
    /\ Did("loadTerminals resolved")
    /\ UNCHANGED <<error, now, coordinatorVars, providerVars, hookVars, isVisible, initializeApp, isCommandPaletteOpen, commandsActiveTerminalId>>
    /\ Rerender

\* invoke('get_terminal_state') rejected
loadTerminalsReject(k) ==
    /\ k \in 1..Len(pending)
    /\ pending[k].cmd = "get_terminal_state"
    /\ error' = BackendError
    /\ isLoading' = FALSE
    /\ pending' = Without(pending, k)
    /\ Did("loadTerminals rejected")
    /\ UNCHANGED <<terminals, activeTerminalId, now, coordinatorVars, providerVars, hookVars, isVisible, initializeApp, isCommandPaletteOpen, commandsActiveTerminalId>>
    /\ Rerender

clearOutput(terminalId) ==
    /\ terminals' = [i \in 1..Len(terminals) |->
                        IF terminals[i].id = terminalId
                        THEN [terminals[i] EXCEPT !.output = <<>>]
                        ELSE terminals[i]]
    /\ isLoading' = FALSE
    /\ error' = NoError
    /\ Did("clearOutput")
    /\ UNCHANGED <<activeTerminalId, pending, now, coordinatorVars, providerVars, hookVars, isVisible, initializeApp, isCommandPaletteOpen, commandsActiveTerminalId>>
    /\ Rerender

executeCommand(terminalId, command) ==
    /\ OutputRoom(terminalId)
    /\ terminals' = AppendOutput(terminals, terminalId, ExecutingLine(command))
    /\ isLoading' = FALSE
    /\ error' = NoError
    /\ Did("executeCommand")
    /\ UNCHANGED <<activeTerminalId, pending, now, coordinatorVars, providerVars, hookVars, isVisible, initializeApp, isCommandPaletteOpen, commandsActiveTerminalId>>
    /\ Rerender

clearError ==
    /\ error' = NoError
    /\ Did("clearError")
    /\ UNCHANGED <<terminals, activeTerminalId, isLoading, pending, now, coordinatorVars, providerVars, hookVars, isVisible, initializeApp, isCommandPaletteOpen, commandsActiveTerminalId>>
    /\ Rerender

(******************* Terminal.handleKeyDown, one key each *******************)
Handed(op, text) == last' = [op |-> op, out |-> text]
KeyFrame == UNCHANGED <<storeVars, now, coordinatorVars, providerVars, hookVars, isVisible, initializeApp, isCommandPaletteOpen, commandsActiveTerminalId>>

HistoryRoom == Len(commandHistory) < MaxHistory

KeyEnter ==
    /\ Mounted
    /\ IF Trim(input) # <<>>
       THEN /\ HistoryRoom
            /\ Handed("Enter", input)
            /\ commandHistory' = Append(commandHistory, input)
            /\ historyIndex' = -1
            /\ input' = <<>>
            /\ cursorPosition' = 0
            /\ unsent' = NoBrowse
       ELSE /\ Did("Enter")
            /\ UNCHANGED editorVars
    /\ KeyFrame

ArrowUpIndex == IF historyIndex = -1 THEN Len(commandHistory) - 1 ELSE Max(0, historyIndex - 1)

KeyArrowUp ==
    /\ Mounted
    /\ IF Len(commandHistory) > 0
       THEN /\ historyIndex' = ArrowUpIndex
            /\ input' = commandHistory[ArrowUpIndex + 1]
            /\ cursorPosition' = Len(commandHistory[ArrowUpIndex + 1])
            /\ unsent' = IF historyIndex = -1 THEN input ELSE unsent
            /\ UNCHANGED commandHistory
       ELSE UNCHANGED editorVars
    /\ Did("ArrowUp")
    /\ KeyFrame

\* what ArrowDown puts in the buffer when it steps past the newest entry
PastNewest == <<>>

KeyArrowDown ==
    /\ Mounted
    /\ IF historyIndex # -1
       THEN IF historyIndex + 1 >= Len(commandHistory)
            THEN /\ historyIndex' = -1
                 /\ input' = PastNewest
                 /\ cursorPosition' = Len(PastNewest)
                 /\ unsent' = NoBrowse
                 /\ UNCHANGED commandHistory
            ELSE /\ historyIndex' = historyIndex + 1
                 /\ input' = commandHistory[historyIndex + 2]
                 /\ cursorPosition' = Len(commandHistory[historyIndex + 2])
                 /\ UNCHANGED <<commandHistory, unsent>>
       ELSE UNCHANGED editorVars
    /\ Did("ArrowDown")
    /\ KeyFrame

KeyArrowLeft ==
    /\ Mounted
    /\ cursorPosition' = Max(0, cursorPosition - 1)
    /\ Did("ArrowLeft")
    /\ UNCHANGED <<input, commandHistory, historyIndex, unsent>>
    /\ KeyFrame

KeyArrowRightUnclamped ==
    /\ Mounted
    /\ cursorPosition' = cursorPosition + 1
    /\ Did("ArrowRight")
    /\ UNCHANGED <<input, commandHistory, historyIndex, unsent>>
    /\ KeyFrame

KeyArrowRight ==
    /\ Mounted
    /\ cursorPosition' = Min(Len(input), cursorPosition + 1)
    /\ Did("ArrowRight")
    /\ UNCHANGED <<input, commandHistory, historyIndex, unsent>>
    /\ KeyFrame

KeyHome ==
    /\ Mounted
    /\ cursorPosition' = 0
    /\ Did("Home")
    /\ UNCHANGED <<input, commandHistory, historyIndex, unsent>>
    /\ KeyFrame

KeyEnd ==
    /\ Mounted
    /\ cursorPosition' = Len(input)
    /\ Did("End")
    /\ UNCHANGED <<input, commandHistory, historyIndex, unsent>>
    /\ KeyFrame

\* the buffer and the cursor, as one value
Editor == [input |-> input, cursor |-> cursorPosition]

\* Backspace on a buffer and cursor: the character before the cursor goes
BackspaceOnce(e) ==
    IF e.cursor > 0
    THEN [input |-> Slice(e.input, 0, e.cursor - 1) \o SliceFrom(e.input, e.cursor),
          cursor |-> e.cursor - 1]
    ELSE e

KeyBackspace ==
    /\ Mounted
    /\ input' = BackspaceOnce(Editor).input
    /\ cursorPosition' = BackspaceOnce(Editor).cursor
    /\ unsent' = IF cursorPosition > 0 THEN NoBrowse ELSE unsent
    /\ Did("Backspace")
    /\ UNCHANGED <<commandHistory, historyIndex>>
    /\ KeyFrame

KeyDelete ==
    /\ Mounted
    /\ IF cursorPosition < Len(input)
       THEN /\ input' = Slice(input, 0, cursorPosition) \o SliceFrom(input, cursorPosition + 1)
            /\ unsent' = NoBrowse
       ELSE UNCHANGED <<input, unsent>>
    /\ Did("Delete")
    /\ UNCHANGED <<cursorPosition, commandHistory, historyIndex>>
    /\ KeyFrame

\* a key with e.key.length === 1 and no modifier: the default branch inserts
\* it, but 'c' and 'v' have cases of their own that insert nothing
TypeChar(e, c) ==
    IF c \in CopyPasteKeys
    THEN e
    ELSE [input |-> Slice(e.input, 0, e.cursor) \o <<c>> \o SliceFrom(e.input, e.cursor),
          cursor |-> e.cursor + 1]

KeyChar(c) ==
    /\ Mounted
    /\ c \in CopyPasteKeys \/ Len(input) < MaxInput
    /\ input' = TypeChar(Editor, c).input
    /\ cursorPosition' = TypeChar(Editor, c).cursor
    /\ unsent' = IF c \in CopyPasteKeys THEN unsent ELSE NoBrowse
    /\ Did(IF c \in CopyPasteKeys THEN "Ignored" ELSE "Char")
    /\ UNCHANGED <<commandHistory, historyIndex>>
    /\ KeyFrame

\* Tab, and c / v with a modifier: nothing yet
KeyIgnored ==
    /\ Mounted
    /\ Did("Ignored")
    /\ UNCHANGED editorVars
    /\ KeyFrame

handleKeyDown ==
    \/ KeyEnter
    \/ KeyArrowUp
    \/ KeyArrowDown
    \/ KeyArrowLeft
    \/ KeyArrowRight
    \/ KeyHome
    \/ KeyEnd
    \/ KeyBackspace
    \/ KeyDelete
    \/ \E c \in Chars : KeyChar(c)
    \/ KeyIgnored

(***************************** the app store *******************************)
\* useAppStore: the provider list and the calls it makes to the backend.
\* A provider is kept as its id and its default and enabled flags.
MaxAppPending == 1

ProviderFrame == UNCHANGED <<storeVars, now, isVisible, initializeApp, isCommandPaletteOpen, commandsActiveTerminalId, editorVars, coordinatorVars, hookVars>>

Provider(id, default, enabled) == [id |-> id, default |-> default, enabled |-> enabled]

ProviderIds == {<<"p1">>, <<"p2">>}

\* what invoke('get_providers') can answer: no provider, one, or two
ProviderLists ==
    {<<>>}
    \cup {<<Provider(<<"p1">>, d, e)>> : d \in BOOLEAN, e \in BOOLEAN}
    \cup {<<Provider(<<"p1">>, d1, e1), Provider(<<"p2">>, d2, e2)>> :
            d1 \in BOOLEAN, e1 \in BOOLEAN, d2 \in BOOLEAN, e2 \in BOOLEAN}

\* providers.find(p => p.default)?.id || null
RECURSIVE FindDefaultId(_)
FindDefaultId(ps) ==
    IF ps = <<>> THEN Null
    ELSE IF Head(ps).default THEN Head(ps).id
    ELSE FindDefaultId(Tail(ps))

AppRoom == Len(appPending) < MaxAppPending

\* set({ isLoading: true, error: null }) and the invoke that follows it
AppInvokes(queue, cmd, arg) ==
    /\ appIsLoading' = TRUE
    /\ appError' = NoError
    /\ appPending' = Append(queue, [cmd |-> cmd, arg |-> arg])
    /\ UNCHANGED <<providers, defaultProvider>>

AppInvoke(queue, cmd, arg) ==
    /\ AppInvokes(queue, cmd, arg)
    /\ ProviderFrame

AppAwaits(k, cmd) == k \in 1..Len(appPending) /\ appPending[k].cmd = cmd

loadProvidersStart ==
    /\ AppRoom
    /\ AppInvoke(appPending, "get_providers", Null)
    /\ Did("loadProviders")

loadProvidersResolve(k, answer) ==
    /\ AppAwaits(k, "get_providers")
    /\ providers' = answer
    /\ defaultProvider' = FindDefaultId(answer)
    /\ appIsLoading' = FALSE
    /\ appPending' = Without(appPending, k)
    /\ Did("loadProviders resolved")
    /\ UNCHANGED appError
    /\ ProviderFrame

\* id: `provider_${Date.now()}`
addProviderStart(default, enabled) ==
    /\ AppRoom
    /\ AppInvoke(appPending, "add_provider", Provider(<<"provider", now>>, default, enabled))
    /\ Did("addProvider")

removeProviderStart(id) ==
    /\ AppRoom
    /\ AppInvoke(appPending, "remove_provider", id)
    /\ Did("removeProvider")

\* add_provider or remove_provider resolved: await get().loadProviders()
mutationResolve(k) ==
    /\ k \in 1..Len(appPending)
    /\ appPending[k].cmd \in {"add_provider", "remove_provider"}
    /\ AppInvoke(Without(appPending, k), "get_providers", Null)
    /\ Did("loadProviders")

setDefaultProviderStart(id) ==
    /\ AppRoom
    /\ AppInvoke(appPending, "set_default_provider", id)
    /\ Did("setDefaultProvider")

setDefaultProviderResolve(k) ==
    /\ AppAwaits(k, "set_default_provider")
    /\ defaultProvider' = appPending[k].arg
    /\ appIsLoading' = FALSE
    /\ appPending' = Without(appPending, k)
    /\ Did("setDefaultProvider resolved")
    /\ UNCHANGED <<providers, appError>>
    /\ ProviderFrame

\* useAppStore's executeCommand(command, providerId); providerId may be absent
appExecuteCommandStart(command, providerId) ==
    /\ AppRoom
    /\ AppInvoke(appPending, "execute_command",
                 [command |-> command, providerId |-> providerId])
    /\ Did("app executeCommand")

appExecuteCommandResolve(k) ==
    /\ AppAwaits(k, "execute_command")
    /\ appIsLoading' = FALSE
    /\ appPending' = Without(appPending, k)
    /\ last' = [op |-> "app executeCommand resolved", out |-> <<"result">>]
    /\ UNCHANGED <<providers, defaultProvider, appError>>
    /\ ProviderFrame

\* getSystemInfo() and getWorkspaceInfo(path); what they fetch is not kept
getSystemInfoStart ==
    /\ AppRoom
    /\ AppInvoke(appPending, "get_system_info", Null)
    /\ Did("getSystemInfo")

WorkspacePaths == {<<"/tmp">>}

getWorkspaceInfoStart(path) ==
    /\ AppRoom
    /\ AppInvoke(appPending, "get_workspace_info", path)
    /\ Did("getWorkspaceInfo")

\* set({ systemInfo, isLoading: false }) / set({ workspaceInfo, isLoading: false })
infoResolve(k) ==
    /\ k \in 1..Len(appPending)
    /\ appPending[k].cmd \in {"get_system_info", "get_workspace_info"}
    /\ appIsLoading' = FALSE
    /\ appPending' = Without(appPending, k)
    /\ Did("info resolved")
    /\ UNCHANGED <<providers, defaultProvider, appError>>
    /\ ProviderFrame

\* any of the invokes rejected: set({ error, isLoading: false });
\* executeCommand throws the error on to its caller
appInvokeReject(k) ==
    /\ k \in 1..Len(appPending)
    /\ appError' = BackendError
    /\ appIsLoading' = FALSE
    /\ appPending' = Without(appPending, k)
    /\ last' = [op |-> "app invoke rejected",
                out |-> IF appPending[k].cmd = "execute_command"
                        THEN <<"throws">> ELSE None]
    /\ UNCHANGED <<providers, defaultProvider>>
    /\ ProviderFrame

appClearError ==
    /\ appError' = NoError
    /\ Did("app clearError")
    /\ UNCHANGED <<providers, defaultProvider, appIsLoading, appPending>>
    /\ ProviderFrame

NoProviderId == Null
ProviderArgs == ProviderIds \cup {NoProviderId}

NextProviders ==
    \/ loadProvidersStart
    \/ \E k \in 1..MaxAppPending, answer \in ProviderLists : loadProvidersResolve(k, answer)
    \/ \E d \in BOOLEAN, e \in BOOLEAN : addProviderStart(d, e)
    \/ \E id \in ProviderIds : removeProviderStart(id)
    \/ \E k \in 1..MaxAppPending : mutationResolve(k)
    \/ \E id \in ProviderIds : setDefaultProviderStart(id)
    \/ \E k \in 1..MaxAppPending : setDefaultProviderResolve(k)
    \/ \E c \in Commands, id \in ProviderArgs : appExecuteCommandStart(c, id)
    \/ \E k \in 1..MaxAppPending : appExecuteCommandResolve(k)
    \/ getSystemInfoStart
    \/ \E path \in WorkspacePaths : getWorkspaceInfoStart(path)
    \/ \E k \in 1..MaxAppPending : infoResolve(k)
    \/ \E k \in 1..MaxAppPending : appInvokeReject(k)
    \/ appClearError

SpecProviders == Init /\ [][NextProviders]_vars

(********************************* App *************************************)
\* The 'hotkey-triggered' listener is registered once, by an effect with no
\* dependencies: its handleHotkeyCallback reads what the first render saw.
FirstRenderIsVisible == FALSE
FirstRenderTerminals == <<>>
FirstRenderActiveTerminalId == Null

AppFrame == UNCHANGED <<storeVars, now, initializeApp, isCommandPaletteOpen, coordinatorVars, providerVars, hookVars>>

\* <CommandPalette> is rendered while App is visible and the flag is set
PaletteShown == isVisible /\ isCommandPaletteOpen

\* CommandPalette keeps its entries in the commands state, set by
\* useEffect(..., [query]) only: an entry's action calls the onCommand of the
\* render in which that effect last ran, with the activeTerminalId of that
\* render. The palette mounts with the current one, keeps it while it stays
\* mounted, and loses its state when it unmounts.
PaletteRerender ==
    commandsActiveTerminalId' =
        IF ~(isVisible' /\ isCommandPaletteOpen') THEN Null
        ELSE IF PaletteShown THEN commandsActiveTerminalId
        ELSE activeTerminalId'

HotkeyToggleWindow ==
    /\ isVisible' = ~FirstRenderIsVisible
    /\ Did("toggle_window")
    /\ AppFrame
    /\ Rerender
    /\ PaletteRerender

QuickHideThatToggles ==
    /\ isVisible' = ~isVisible
    /\ Did("quick_hide")
    /\ AppFrame
    /\ Rerender
    /\ PaletteRerender

HotkeyQuickHide ==
    /\ isVisible' = FALSE
    /\ Did("quick_hide")
    /\ AppFrame
    /\ Rerender
    /\ PaletteRerender

HotkeyNewTab == createTerminal(Undefined, Undefined)

HotkeyCloseTab ==
    IF FirstRenderActiveTerminalId # Null
    THEN closeTerminal(FirstRenderActiveTerminalId)
    ELSE /\ Did("close_tab")
         /\ UNCHANGED <<storeVars, now, coordinatorVars, providerVars, hookVars, isVisible, initializeApp, isCommandPaletteOpen, commandsActiveTerminalId, editorVars>>

\* terminals.findIndex(t => t.id === activeTerminalId), counted from 0
RECURSIVE FindIndexFrom(_, _, _)
FindIndexFrom(ts, id, i) ==
    IF i > Len(ts) THEN -1
    ELSE IF ts[i].id = id THEN i - 1
    ELSE FindIndexFrom(ts, id, i + 1)

FindIndex(ts, id) == FindIndexFrom(ts, id, 1)

\* (currentIndex + 1) % terminals.length; NaN (here -1) over an empty list
NextIndex(ts, id) ==
    IF Len(ts) = 0 THEN -1 ELSE (FindIndex(ts, id) + 1) % Len(ts)

\* currentIdx === 0 ? terminals.length - 1 : currentIdx - 1
PrevIndex(ts, id) ==
    IF FindIndex(ts, id) = 0 THEN Len(ts) - 1 ELSE FindIndex(ts, id) - 1

\* if (terminals[index]) setActiveTerminal(terminals[index].id)
ActivateAt(ts, index, op) ==
    IF 0 <= index /\ index < Len(ts)
    THEN setActiveTerminal(ts[index + 1].id)
    ELSE /\ Did(op)
         /\ UNCHANGED <<storeVars, now, coordinatorVars, providerVars, hookVars, isVisible, initializeApp, isCommandPaletteOpen, commandsActiveTerminalId, editorVars>>

HotkeyNextTab ==
    ActivateAt(FirstRenderTerminals,
               NextIndex(FirstRenderTerminals, FirstRenderActiveTerminalId), "next_tab")

HotkeyPrevTab ==
    ActivateAt(FirstRenderTerminals,
               PrevIndex(FirstRenderTerminals, FirstRenderActiveTerminalId), "prev_tab")

\* useHotkeys('cmd+shift+]') and useHotkeys('cmd+shift+['), registered without
\* a dependency list: whether the handler that runs is the one of the latest
\* render or the one of the first render depends on the react-hotkeys-hook
\* release the build resolves, so both are possible
SeenTerminals(latest) == IF latest THEN terminals ELSE FirstRenderTerminals
SeenActiveTerminalId(latest) ==
    IF latest THEN activeTerminalId ELSE FirstRenderActiveTerminalId

HotkeyCmdShiftRight(latest) ==
    ActivateAt(SeenTerminals(latest),
               NextIndex(SeenTerminals(latest), SeenActiveTerminalId(latest)),
               "cmd+shift+]")

HotkeyCmdShiftLeft(latest) ==
    ActivateAt(SeenTerminals(latest),
               PrevIndex(SeenTerminals(latest), SeenActiveTerminalId(latest)),
               "cmd+shift+[")

\* useHotkeys('cmd+w'): if (activeTerminalId) closeTerminal(activeTerminalId)
HotkeyCmdW(latest) ==
    IF SeenActiveTerminalId(latest) # Null
    THEN closeTerminal(SeenActiveTerminalId(latest))
    ELSE /\ Did("cmd+w")
         /\ UNCHANGED <<storeVars, now, coordinatorVars, providerVars, hookVars, isVisible, initializeApp, isCommandPaletteOpen, commandsActiveTerminalId, editorVars>>

\* useHotkeys('cmd+t')
HotkeyCmdT == createTerminal(Undefined, Undefined)

\* useHotkeys('escape'): setIsCommandPaletteOpen(false), setIsVisible(false);
\* last keeps what the key found, as an observer
HotkeyEscape ==
    /\ isCommandPaletteOpen' = FALSE
    /\ isVisible' = FALSE
    /\ last' = [op |-> "escape", out |-> <<isVisible, isCommandPaletteOpen>>]
    /\ UNCHANGED <<storeVars, now, initializeApp, coordinatorVars, providerVars, hookVars>>
    /\ Rerender
    /\ PaletteRerender

\* useHotkeys('cmd+k'): setIsCommandPaletteOpen(true)
HotkeyCmdK ==
    /\ isCommandPaletteOpen' = TRUE
    /\ Did("cmd+k")
    /\ UNCHANGED <<storeVars, now, isVisible, initializeApp, editorVars, coordinatorVars, providerVars, hookVars>>
    /\ PaletteRerender

\* setQuery in the palette's input: the effect on [query] runs again and the
\* entries are those of the latest render (the query is one that still lists
\* the entries below)
PaletteSetQuery ==
    /\ PaletteShown
    /\ commandsActiveTerminalId' = activeTerminalId
    /\ Did("palette query")
    /\ UNCHANGED <<storeVars, now, isVisible, initializeApp, isCommandPaletteOpen, editorVars, coordinatorVars, providerVars, hookVars>>

\* onClose(): Escape in the palette, its close button, or a command that
\* handleCommandPaletteCommand does nothing for (every command comes with
\* args = [], so the provider and theme commands find no args[0])
PaletteClose ==
    /\ PaletteShown
    /\ isCommandPaletteOpen' = FALSE
    /\ Did("palette close")
    /\ UNCHANGED <<storeVars, now, isVisible, initializeApp, editorVars, coordinatorVars, providerVars, hookVars>>
    /\ PaletteRerender

\* the palette's terminal.new: createTerminal(), then onClose()
PaletteTerminalNew ==
    /\ PaletteShown
    /\ CreateTerminalCall(Undefined, Undefined)
    /\ isCommandPaletteOpen' = FALSE
    /\ PaletteRerender

\* the palette's terminal.close: if (activeTerminalId) closeTerminal(...), with
\* the activeTerminalId the entry holds, then onClose()
PaletteTerminalClose ==
    /\ PaletteShown
    /\ IF commandsActiveTerminalId # Null
       THEN CloseTerminalCall(commandsActiveTerminalId)
       ELSE /\ Did("palette close")
            /\ UNCHANGED <<storeVars, now, isVisible, initializeApp, editorVars, coordinatorVars, providerVars, hookVars>>
    /\ isCommandPaletteOpen' = FALSE
    /\ PaletteRerender

\* the "Create Terminal" button of the empty view
ClickCreateTerminal ==
    /\ isVisible
    /\ Len(terminals) = 0
    /\ createTerminal(Undefined, Undefined)

\* Sidebar: the + button, a click on a session, a click on its x
SidebarCreateTerminal ==
    /\ isVisible
    /\ createTerminal(Undefined, Undefined)

SidebarTerminalClick(id) ==
    /\ isVisible
    /\ id \in KnownIds
    /\ setActiveTerminal(id)

SidebarCloseTerminal(id) ==
    /\ isVisible
    /\ id \in KnownIds
    /\ closeTerminal(id)

\* the mount effect's initializeApp: await loadConfig() has settled (loadConfig
\* catches a rejection itself), and loadProviders() is called
MountLoadProviders ==
    /\ initializeApp = "loadConfig"
    /\ AppRoom
    /\ AppInvokes(appPending, "get_providers", Null)
    /\ initializeApp' = "loadProviders"
    /\ Did("loadProviders")
    /\ UNCHANGED <<storeVars, now, isVisible, isCommandPaletteOpen, commandsActiveTerminalId, editorVars, coordinatorVars, hookVars>>

\* what get_providers answers to the App's call
MountAnswers == {<<>>, <<Provider(<<"p1">>, TRUE, TRUE)>>}

WithinApp ==
    /\ Len(terminals') <= AppMaxTerminals
    /\ Len(input') <= AppMaxInput
    /\ Len(commandHistory') <= AppMaxHistory

NextApp ==
    \/ Tick
    \/ HotkeyToggleWindow
    \/ HotkeyQuickHide
    \/ HotkeyNewTab /\ WithinApp
    \/ HotkeyCloseTab
    \/ HotkeyNextTab
    \/ HotkeyPrevTab
    \/ HotkeyCmdT /\ WithinApp
    \/ \E latest \in BOOLEAN : HotkeyCmdW(latest)
    \/ \E latest \in BOOLEAN : HotkeyCmdShiftRight(latest)
    \/ \E latest \in BOOLEAN : HotkeyCmdShiftLeft(latest)
    \/ HotkeyEscape
    \/ HotkeyCmdK
    \/ PaletteSetQuery
    \/ PaletteClose
    \/ PaletteTerminalNew /\ WithinApp
    \/ PaletteTerminalClose
    \/ ClickCreateTerminal
    \/ SidebarCreateTerminal /\ WithinApp
    \/ \E id \in Ids : SidebarTerminalClick(id)
    \/ \E id \in Ids : SidebarCloseTerminal(id)
    \/ handleKeyDown /\ WithinApp
    \/ MountLoadProviders
    \/ \E k \in 1..MaxAppPending, answer \in MountAnswers : loadProvidersResolve(k, answer)
    \/ \E k \in 1..MaxAppPending : appInvokeReject(k)

SpecApp == Init /\ [][NextApp]_vars

\* The editor on its own: App has been shown (toggle_window) and holds the
\* one session created at time 1; only keys arrive.
InitEditor ==
    /\ now = 1
    /\ terminals = <<[id |-> TerminalId(1), title |-> DefaultTitle(1),
                      working_directory |-> <<"/">>, is_active |-> FALSE,
                      output |-> <<>>]>>
    /\ activeTerminalId = TerminalId(1)
    /\ isLoading = FALSE
    /\ error = NoError
    /\ pending = <<>>
    /\ isVisible = TRUE
    /\ initializeApp = "loadConfig"
    /\ isCommandPaletteOpen = FALSE
    /\ commandsActiveTerminalId = Null
    /\ EditorInit
    /\ CoordinatorInit
    /\ ProvidersInit
    /\ HooksInit
    /\ last = [op |-> "toggle_window", out |-> None]

NextEditor == handleKeyDown

SpecEditor == InitEditor /\ [][NextEditor]_vars

Next ==
    \/ Tick
    \/ \E a \in CreateArgs : createTerminal(a[1], a[2]) /\ Len(terminals') <= StoreMaxTerminals
    \/ \E id \in Ids : closeTerminal(id)
    \/ \E id \in Ids : setActiveTerminal(id)
    \/ \E id \in Ids, c \in Commands : sendInputStart(id, c)
    \/ \E k \in 1..MaxPending : sendInputResolve(k)
    \/ \E k \in 1..MaxPending : sendInputReject(k)
    \/ loadTerminalsStart
    \/ \E k \in 1..MaxPending, loaded \in BackendStates : loadTerminalsResolve(k, loaded)
    \/ \E k \in 1..MaxPending : loadTerminalsReject(k)
    \/ \E id \in Ids : clearOutput(id)
    \/ \E id \in Ids, c \in Commands : executeCommand(id, c)
    \/ clearError

Spec == Init /\ [][Next]_vars

\* The registry driven by createTerminal, closeTerminal and setActiveTerminal only.
NextRegistry ==
    \/ Tick
    \/ \E a \in CreateArgs : createTerminal(a[1], a[2])
    \/ \E id \in Ids : closeTerminal(id)
    \/ \E id \in Ids : setActiveTerminal(id)

SpecRegistry == Init /\ [][NextRegistry]_vars

\* The store driven by the operations that write output, over a registry of
\* sessions created with default arguments.
NextOutput ==
    \/ Tick
    \/ createTerminal(Undefined, Undefined) /\ Len(terminals') <= StoreMaxTerminals
    \/ \E id \in Ids : setActiveTerminal(id)
    \/ \E id \in Ids, c \in Commands : sendInputStart(id, c)
    \/ \E k \in 1..MaxPending : sendInputResolve(k)
    \/ \E k \in 1..MaxPending : sendInputReject(k)
    \/ \E id \in Ids : clearOutput(id)
    \/ \E id \in Ids, c \in Commands : executeCommand(id, c)

SpecOutput == Init /\ [][NextOutput]_vars

(************************ the Trigger Coordinator **************************)
\* Edge dwell: pointer samples, the edge binding's DwellTimer, the Timer
\* Service that fires it, and the delivery of its expiry to the coordinator.

\* triggers.edges.dwell_ms of the configuration (450 by default), in clock ticks
DwellMs == 2
MaxEvents == 2
MaxTimestamp == 5

\* Time passes on the clock that stamps pointer samples and drives the timer.
TimePasses ==
    /\ now < MaxTimestamp
    /\ now' = now + 1
    /\ UNCHANGED <<storeVars, isVisible, initializeApp, isCommandPaletteOpen, commandsActiveTerminalId, editorVars, coordinatorVars, providerVars, hookVars, last>>

DwellFrame == UNCHANGED <<storeVars, now, isVisible, initializeApp, isCommandPaletteOpen, commandsActiveTerminalId, editorVars, providerVars, hookVars>>

\* the Timer Service's handle of an arming: armings are numbered as they come
MaxTimers == 3

NextTimerId(timer) == IF timer = <<>> THEN 1 ELSE timer.timer_id + 1

NewDwellTimer(timestamp, id) ==
    [timer_id |-> id, armed_at |-> timestamp, threshold_ms |-> DwellMs,
     cancelled |-> FALSE, fired |-> FALSE]

Armed(timer) == timer # <<>> /\ ~timer.cancelled

\* a sample inside the zone arms the timer, or leaves an armed one as it is;
\* a sample outside the zone cancels it, with no effect on visibility
on_pointer_sample(inZone) ==
    /\ (inZone /\ ~Armed(dwellTimer)) => NextTimerId(dwellTimer) <= MaxTimers
    /\ pointerInZone' = inZone
    /\ inZoneSince' = IF ~inZone THEN <<>>
                      ELSE IF pointerInZone THEN inZoneSince ELSE now
    /\ dwellTimer' = IF inZone
                     THEN IF Armed(dwellTimer) THEN dwellTimer
                          ELSE NewDwellTimer(now, NextTimerId(dwellTimer))
                     ELSE IF dwellTimer = <<>> THEN <<>>
                          ELSE [dwellTimer EXCEPT !.cancelled = TRUE]
    \* observer: every expiry still in flight has now seen the pointer leave
    /\ events' = IF inZone THEN events
                 ELSE [k \in 1..Len(events) |-> [events[k] EXCEPT !.left = TRUE]]
    /\ UNCHANGED <<visibility, pendingToggle>>
    /\ last' = [op |-> "pointer_sample", out |-> <<inZone>>]
    /\ DwellFrame

\* Timer Service: a timer that is armed and not cancelled elapses once, at or
\* after armed_at + threshold_ms, and timer_elapsed(timer_id) is enqueued
TimerElapses ==
    /\ Armed(dwellTimer)
    /\ ~dwellTimer.fired
    /\ now >= dwellTimer.armed_at + dwellTimer.threshold_ms
    /\ Len(events) < MaxEvents
    /\ dwellTimer' = [dwellTimer EXCEPT !.fired = TRUE]
    /\ events' = Append(events, [msg |-> "timer_elapsed",
                                 timer_id |-> dwellTimer.timer_id,
                                 left |-> FALSE])
    /\ UNCHANGED <<pointerInZone, inZoneSince, visibility, pendingToggle, last>>
    /\ DwellFrame

LatestSampleInZone(event) == pointerInZone

\* the re-check made before committing to a reveal, "is pointer still in
\* zone": the pointer is in the zone and the timer that elapsed is the one of
\* its present stay, not one cancelled when the pointer left
StillInZone(event) ==
    /\ pointerInZone
    /\ Armed(dwellTimer)
    /\ dwellTimer.timer_id = event.timer_id

\* a reveal is requested: from Hidden the reveal starts, in Visible there is
\* nothing to do, and during a transition the request is queued
RequestReveal(state, queued) ==
    CASE state = "Hidden" -> [visibility |-> "Revealing", pendingToggle |-> queued]
      [] state = "Visible" -> [visibility |-> "Visible", pendingToggle |-> queued]
      [] state \in {"Revealing", "Hiding"} ->
            [visibility |-> state, pendingToggle |-> "reveal"]

\* timer_elapsed(timer_id) is delivered: the fired event is processed even if
\* the timer was cancelled meanwhile
on_timer_elapsed ==
    /\ events # <<>>
    /\ events' = Tail(events)
    /\ visibility' = IF StillInZone(Head(events))
                     THEN RequestReveal(visibility, pendingToggle).visibility
                     ELSE visibility
    /\ pendingToggle' = IF StillInZone(Head(events))
                        THEN RequestReveal(visibility, pendingToggle).pendingToggle
                        ELSE pendingToggle
    /\ last' = [op |-> "timer_elapsed",
                out |-> IF StillInZone(Head(events)) THEN <<"reveal">> ELSE <<"stale">>]
    /\ UNCHANGED <<pointerInZone, inZoneSince, dwellTimer>>
    /\ DwellFrame

Settled(state) == IF state = "Revealing" THEN "Visible" ELSE "Hidden"

\* the external settle signal ends a transition; a request queued during it
\* is applied now
Settle ==
    /\ visibility \in {"Revealing", "Hiding"}
    /\ visibility' = IF pendingToggle = "reveal"
                     THEN RequestReveal(Settled(visibility), "none").visibility
                     ELSE Settled(visibility)
    /\ pendingToggle' = "none"
    /\ Did("settle")
    /\ UNCHANGED <<pointerInZone, inZoneSince, dwellTimer, events>>
    /\ DwellFrame

\* on_hotkey(quick_hide) while the terminal is visible
CoordinatorQuickHide ==
    /\ visibility = "Visible"
    /\ visibility' = "Hiding"
    /\ Did("coordinator_quick_hide")
    /\ UNCHANGED <<pointerInZone, inZoneSince, dwellTimer, events, pendingToggle>>
    /\ DwellFrame

NextDwell ==
    \/ TimePasses
    \/ \E inZone \in BOOLEAN : on_pointer_sample(inZone)
    \/ TimerElapses
    \/ on_timer_elapsed
    \/ Settle
    \/ CoordinatorQuickHide

SpecDwell == Init /\ [][NextDwell]_vars

\* executeCommand fed with command lines that may hold quotes, over a
\* registry of at most one session.
MaxLine == 2
Quote == "\""
CommandChars == {"a", " ", Quote}
CommandLines == UNION {[1..n -> CommandChars] : n \in 1..MaxLine}

NextRouter ==
    \/ createTerminal(Undefined, Undefined) /\ Len(terminals') <= 1
    \/ \E id \in Ids, line \in CommandLines : executeCommand(id, line)
    \/ \E id \in Ids : clearOutput(id)

SpecRouter == Init /\ [][NextRouter]_vars

(****************************** async hooks ********************************)
\* utils: useAsyncWithRetry, useAsyncWithCache, useAsyncDebounced. The async
\* function is the caller's: each invocation of it resolves or rejects.
HookFrame == UNCHANGED <<storeVars, now, isVisible, initializeApp, isCommandPaletteOpen, commandsActiveTerminalId, editorVars, coordinatorVars, providerVars>>

\* what the async function resolves with, and the message of what it rejects with
Results == {<<"r1">>, <<"r2">>}
Failure == <<"An error occurred">>

\* options.retries (3 by default)
Retries == 2

\* while (currentRetry <= retries)
LoopGoesOn(currentRetry) == currentRetry <= Retries

NeverLastAttempt(currentRetry) == FALSE

\* if (currentRetry === retries)
LastAttempt(currentRetry) == currentRetry = Retries

\* the head of the loop: either one more invocation of the async function,
\* or the loop is left and execute returns undefined
RetryAttempt(h, currentRetry) ==
    IF LoopGoesOn(currentRetry)
    THEN [h EXCEPT !.loading = TRUE, !.error = Null, !.retryCount = currentRetry,
                   !.currentRetry = currentRetry, !.phase = "awaiting",
                   !.invocations = @ + 1]
    ELSE [h EXCEPT !.currentRetry = currentRetry, !.phase = "returned"]

\* execute(...args), one call at a time
retryExecute ==
    /\ retryHook.phase \in {"idle", "returned", "thrown"}
    /\ retryHook' = RetryAttempt([retryHook EXCEPT !.invocations = 0], 0)
    /\ last' = [op |-> "retry execute",
                out |-> IF LoopGoesOn(0) THEN None ELSE <<"undefined">>]
    /\ UNCHANGED <<cacheHook, debounceHook>>
    /\ HookFrame

\* await asyncFunction(...args) resolved: setData, setRetryCount(0), return
retryResolved(result) ==
    /\ retryHook.phase = "awaiting"
    /\ retryHook' = [retryHook EXCEPT !.data = result, !.retryCount = 0,
                                      !.phase = "returned"]
    /\ last' = [op |-> "retry resolved", out |-> result]
    /\ UNCHANGED <<cacheHook, debounceHook>>
    /\ HookFrame

\* await asyncFunction(...args) rejected: setError, then throw or wait
retryRejected ==
    /\ retryHook.phase = "awaiting"
    /\ retryHook' =
        IF LastAttempt(retryHook.currentRetry)
        THEN [retryHook EXCEPT !.error = Failure, !.loading = FALSE, !.phase = "thrown"]
        ELSE [retryHook EXCEPT !.error = Failure, !.currentRetry = @ + 1,
                               !.phase = "delaying"]
    /\ last' = [op |-> "retry rejected",
                out |-> IF LastAttempt(retryHook.currentRetry)
                        THEN <<"throws">> ELSE None]
    /\ UNCHANGED <<cacheHook, debounceHook>>
    /\ HookFrame

\* setTimeout(resolve, retryDelay) elapsed: back to the head of the loop
retryDelayElapsed ==
    /\ retryHook.phase = "delaying"
    /\ retryHook' = RetryAttempt(retryHook, retryHook.currentRetry)
    /\ last' = [op |-> "retry delay elapsed",
                out |-> IF LoopGoesOn(retryHook.currentRetry)
                        THEN None ELSE <<"undefined">>]
    /\ UNCHANGED <<cacheHook, debounceHook>>
    /\ HookFrame

retryReset ==
    /\ retryHook' = [retryHook EXCEPT !.data = Null, !.error = Null,
                                      !.loading = FALSE, !.retryCount = 0]
    /\ Did("retry reset")
    /\ UNCHANGED <<cacheHook, debounceHook>>
    /\ HookFrame

NextRetry ==
    \/ TimePasses
    \/ retryExecute
    \/ \E result \in Results : retryResolved(result)
    \/ retryRejected
    \/ retryDelayElapsed
    \/ retryReset

SpecRetry == Init /\ [][NextRetry]_vars

(* useAsyncWithCache. cacheHook.cache is cacheRef.current, a map from keys  *)
(* to {data, timestamp}; cacheHook.calls are the execute calls waiting for *)
(* the async function; cacheHook.invalidated is an observer: the keys      *)
(* dropped by invalidateCache or clearCache for which no execute has been  *)
(* called since.                                                           *)

\* options.ttl (5 * 60 * 1000 by default), in clock steps
Ttl == 2

MaxCacheCalls == 2

\* options.cacheKey, not given
CacheKey == Null

CacheArgs == {<<"a">>, <<"b">>}

\* JSON.stringify(args)
Stringify(args) ==
    CASE args = <<"a">> -> "[\"a\"]"
      [] args = <<"b">> -> "[\"b\"]"

\* const key = cacheKey || JSON.stringify(args)
KeyOf(args) == IF CacheKey # Null THEN CacheKey ELSE Stringify(args)

CacheKeys == {KeyOf(args) : args \in CacheArgs}

\* the argument of invalidateCache(key?): a key, or "" for none
InvalidateArgs == CacheKeys \cup {""}

\* cacheRef.current.set(key, entry)
MapSet(map, key, entry) ==
    [k \in DOMAIN map \cup {key} |-> IF k = key THEN entry ELSE map[k]]

\* cacheRef.current.delete(key)
MapDelete(map, key) == [k \in DOMAIN map \ {key} |-> map[k]]

\* if (cached && Date.now() - cached.timestamp < ttl)
CacheHit(map, key, clock) ==
    /\ key \in DOMAIN map
    /\ clock - map[key].timestamp < Ttl

WithoutCall(calls, i) == [j \in 1..(Len(calls) - 1) |-> IF j < i THEN calls[j] ELSE calls[j + 1]]

\* execute(...args)
cacheExecute(args) ==
    LET key == KeyOf(args) IN
    /\ IF CacheHit(cacheHook.cache, key, now)
       THEN /\ cacheHook' = [cacheHook EXCEPT !.data = cacheHook.cache[key].data,
                                              !.fromCache = TRUE,
                                              !.loading = FALSE,
                                              !.invalidated = @ \ {key}]
            /\ last' = [op |-> "cache execute", out |-> cacheHook.cache[key].data]
       ELSE /\ Len(cacheHook.calls) < MaxCacheCalls
            /\ cacheHook' = [cacheHook EXCEPT !.loading = TRUE,
                                              !.error = Null,
                                              !.fromCache = FALSE,
                                              !.calls = Append(@, [key |-> key, args |-> args]),
                                              !.invalidated = @ \ {key}]
            /\ last' = [op |-> "cache execute", out |-> None]
    /\ UNCHANGED <<retryHook, debounceHook>>
    /\ HookFrame

\* await asyncFunction(...args) resolved: store, setData, finally
cacheResolved(i, result) ==
    /\ i \in 1..Len(cacheHook.calls)
    /\ cacheHook' = [cacheHook EXCEPT
                        !.cache = MapSet(@, cacheHook.calls[i].key,
                                         [data |-> result, timestamp |-> now]),
                        !.data = result,
                        !.loading = FALSE,
                        !.calls = WithoutCall(@, i)]
    /\ last' = [op |-> "cache resolved", out |-> result]
    /\ UNCHANGED <<retryHook, debounceHook>>
    /\ HookFrame

\* await asyncFunction(...args) rejected: setError, throw, finally
cacheRejected(i) ==
    /\ i \in 1..Len(cacheHook.calls)
    /\ cacheHook' = [cacheHook EXCEPT !.error = Failure,
                                      !.loading = FALSE,
                                      !.calls = WithoutCall(@, i)]
    /\ last' = [op |-> "cache rejected", out |-> <<"throws">>]
    /\ UNCHANGED <<retryHook, debounceHook>>
    /\ HookFrame

\* invalidateCache(key?)
invalidateCache(key) ==
    /\ cacheHook' =
        IF key # ""
        THEN [cacheHook EXCEPT !.cache = MapDelete(@, key),
                               !.invalidated = @ \cup {key}]
        ELSE [cacheHook EXCEPT !.cache = <<>>, !.invalidated = CacheKeys]
    /\ Did("invalidateCache")
    /\ UNCHANGED <<retryHook, debounceHook>>
    /\ HookFrame

clearCache ==
    /\ cacheHook' = [cacheHook EXCEPT !.cache = <<>>, !.invalidated = CacheKeys]
    /\ Did("clearCache")
    /\ UNCHANGED <<retryHook, debounceHook>>
    /\ HookFrame

cacheReset ==
    /\ cacheHook' = [cacheHook EXCEPT !.data = Null, !.error = Null,
                                      !.loading = FALSE, !.fromCache = FALSE]
    /\ Did("cache reset")
    /\ UNCHANGED <<retryHook, debounceHook>>
    /\ HookFrame

NextCache ==
    \/ TimePasses
    \/ \E args \in CacheArgs : cacheExecute(args)
    \/ \E i \in 1..MaxCacheCalls, result \in Results : cacheResolved(i, result)
    \/ \E i \in 1..MaxCacheCalls : cacheRejected(i)
    \/ \E key \in InvalidateArgs : invalidateCache(key)
    \/ clearCache
    \/ cacheReset

SpecCache == Init /\ [][NextCache]_vars

(* useAsyncDebounced. debounceHook.calls has one record per execute call:  *)
(* its arguments, the time of the call, and where its timer and promise    *)
(* stand: "waiting" (timer set), "superseded" or "cancelled" (timer        *)
(* cleared by a later execute or by cancel), "dropped" (timer cleared by   *)
(* the cleanup of the hook's effect), "running" (timer fired, the          *)
(* async function is awaited), "resolved", "rejected". A timer handle is   *)
(* the index of its call; timeoutRef = 0 is timeoutRef.current = null.     *)
(* at, invokedAt and invokedWith are observers.                            *)

\* delay (300 by default), in clock steps
Delay == 2

MaxCalls == 3

DebounceArgs == {<<"a">>, <<"b">>}

\* clearTimeout(handle): a timer that has fired or was cleared is left alone
ClearTimeout(calls, handle, why) ==
    [c \in 1..Len(calls) |->
        IF c = handle /\ calls[c].state = "waiting"
        THEN [calls[c] EXCEPT !.state = why]
        ELSE calls[c]]

\* if (timeoutRef.current) clearTimeout(timeoutRef.current)
ClearExisting(calls, ref) ==
    IF ref # 0 THEN ClearTimeout(calls, ref, "superseded") ELSE calls

\* execute(...args): timeoutRef.current = setTimeout(..., delay)
debounceExecute(args) ==
    /\ Len(debounceHook.calls) < MaxCalls
    /\ now + Delay <= MaxTimestamp
    /\ debounceHook' =
        [debounceHook EXCEPT
            !.calls = Append(ClearExisting(@, debounceHook.timeoutRef),
                             [args |-> args, at |-> now, state |-> "waiting",
                              invokedAt |-> 0, invokedWith |-> Null]),
            !.timeoutRef = Len(debounceHook.calls) + 1]
    /\ last' = [op |-> "debounce execute", out |-> None]
    /\ UNCHANGED <<retryHook, cacheHook>>
    /\ HookFrame

\* the timer of call c elapses: setLoading(true), setError(null),
\* asyncFunction(...args)
timerFires(c) ==
    /\ c \in 1..Len(debounceHook.calls)
    /\ debounceHook.calls[c].state = "waiting"
    /\ now >= debounceHook.calls[c].at + Delay
    /\ debounceHook' =
        [debounceHook EXCEPT
            !.loading = TRUE,
            !.error = Null,
            !.calls[c] = [@ EXCEPT !.state = "running",
                                   !.invokedAt = now,
                                   !.invokedWith = debounceHook.calls[c].args]]
    /\ last' = [op |-> "debounce timer", out |-> None]
    /\ UNCHANGED <<retryHook, cacheHook>>
    /\ HookFrame

\* await asyncFunction(...args) resolved: setData, resolve(result), finally
debounceResolved(c, result) ==
    /\ c \in 1..Len(debounceHook.calls)
    /\ debounceHook.calls[c].state = "running"
    /\ debounceHook' = [debounceHook EXCEPT !.data = result,
                                            !.loading = FALSE,
                                            !.calls[c].state = "resolved"]
    /\ last' = [op |-> "debounce resolved", out |-> result]
    /\ UNCHANGED <<retryHook, cacheHook>>
    /\ HookFrame

\* await asyncFunction(...args) rejected: setError, reject(err), finally
debounceRejected(c) ==
    /\ c \in 1..Len(debounceHook.calls)
    /\ debounceHook.calls[c].state = "running"
    /\ debounceHook' = [debounceHook EXCEPT !.error = Failure,
                                            !.loading = FALSE,
                                            !.calls[c].state = "rejected"]
    /\ last' = [op |-> "debounce rejected", out |-> <<"throws">>]
    /\ UNCHANGED <<retryHook, cacheHook>>
    /\ HookFrame

\* cancel()
Cancelled(h) ==
    IF h.timeoutRef # 0
    THEN [h EXCEPT !.calls = ClearTimeout(@, h.timeoutRef, "cancelled"),
                   !.timeoutRef = 0,
                   !.loading = FALSE]
    ELSE h

debounceCancel ==
    /\ debounceHook' = Cancelled(debounceHook)
    /\ Did("debounce cancel")
    /\ UNCHANGED <<retryHook, cacheHook>>
    /\ HookFrame

\* reset(): setData(null), setError(null), setLoading(false), cancel()
debounceReset ==
    /\ debounceHook' = Cancelled([debounceHook EXCEPT !.data = Null,
                                                      !.error = Null,
                                                      !.loading = FALSE])
    /\ Did("debounce reset")
    /\ UNCHANGED <<retryHook, cacheHook>>
    /\ HookFrame

\* the host renders again with another asyncFunction, so execute changes
\* identity and React runs the cleanup of the effect (as it does at unmount):
\* if (timeoutRef.current) clearTimeout(timeoutRef.current)
effectCleanup ==
    /\ debounceHook' =
        IF debounceHook.timeoutRef # 0
        THEN [debounceHook EXCEPT
                !.calls = ClearTimeout(@, debounceHook.timeoutRef, "dropped")]
        ELSE debounceHook
    /\ Did("debounce rerender")
    /\ UNCHANGED <<retryHook, cacheHook>>
    /\ HookFrame

NextDebounce ==
    \/ TimePasses
    \/ \E args \in DebounceArgs : debounceExecute(args)
    \/ \E c \in 1..MaxCalls : timerFires(c)
    \/ \E c \in 1..MaxCalls, result \in Results : debounceResolved(c, result)
    \/ \E c \in 1..MaxCalls : debounceRejected(c)
    \/ debounceCancel
    \/ debounceReset
    \/ effectCleanup

SpecDebounce == Init /\ [][NextDebounce]_vars

\* the clock advances, a timer that is due runs, and the async function
\* settles
SpecDebounceFair ==
    /\ SpecDebounce
    /\ WF_vars(TimePasses)
    /\ \A c \in 1..MaxCalls :
        /\ WF_vars(timerFires(c))
        /\ WF_vars(debounceRejected(c) \/ \E result \in Results : debounceResolved(c, result))

(******************************* claims ************************************)
ActiveIndices(ts) == {i \in 1..Len(ts) : ts[i].is_active}
DistinctIds(ts) == \A i, j \in 1..Len(ts) : ts[i].id = ts[j].id => i = j
IndicesOf(ts, id) == {i \in 1..Len(ts) : ts[i].id = id}
\* the session App hands to <Terminal>: find(id = activeTerminalId) || terminals[0]
Shown(ts, active) ==
    IF IndicesOf(ts, active) # {}
    THEN CHOOSE i \in IndicesOf(ts, active) : \A j \in IndicesOf(ts, active) : i <= j
    ELSE 1

\* C1: in every state reached by createTerminal, closeTerminal and
\* setActiveTerminal calls, at most one session has is_active = true.
C1_AtMostOneActive == Cardinality(ActiveIndices(terminals)) <= 1

\* C2: createTerminal appends exactly one session with empty output at the end
\* of the registry, leaves the earlier sessions' identity in place, and the new
\* session is then the one (and only one) with is_active = true.
C2_CreateMarksNewActive ==
    [][\A a \in CreateArgs :
        createTerminal(a[1], a[2]) =>
            /\ Len(terminals') = Len(terminals) + 1
            /\ \A i \in 1..Len(terminals) : terminals'[i].id = terminals[i].id
            /\ terminals'[Len(terminals')].output = <<>>
            /\ ActiveIndices(terminals') = {Len(terminals')}]_vars

\* C3: closeTerminal(id) on the active session of a registry with distinct
\* ids removes exactly that session; activity moves to the session that
\* immediately preceded it, and to no session when none remains.
C3_CloseActivatesPredecessor ==
    [][\A id \in Ids :
        (closeTerminal(id) /\ activeTerminalId = id /\ id \in KnownIds
            /\ DistinctIds(terminals)) =>
            LET i == CHOOSE k \in IndicesOf(terminals, id) : TRUE IN
            /\ terminals' = Without(terminals, i)
            /\ (Len(terminals) = 1 => activeTerminalId' = Null)
            /\ (i > 1 => activeTerminalId' = terminals[i - 1].id)]_vars

\* C4: setActiveTerminal(id) with an id that is not in the registry reports an
\* error and leaves the session list, every is_active flag and
\* activeTerminalId as they were.
C4_ActivateUnknownChangesNothing ==
    [][\A id \in Ids :
        (setActiveTerminal(id) /\ id \notin KnownIds) =>
            /\ error' # NoError
            /\ terminals' = terminals
            /\ activeTerminalId' = activeTerminalId]_vars

\* C5: closeTerminal(id) with an id that is not in the registry reports an
\* error to the caller and leaves the session list and the active session
\* unchanged.
C5_CloseUnknownReportsNotFound ==
    [][\A id \in Ids :
        (closeTerminal(id) /\ id \notin KnownIds) =>
            /\ error' # NoError
            /\ terminals' = terminals
            /\ activeTerminalId' = activeTerminalId]_vars

SameButActive(ts1, ts2) ==
    /\ Len(ts1) = Len(ts2)
    /\ \A i \in 1..Len(ts1) : [ts1[i] EXCEPT !.is_active = FALSE]
                               = [ts2[i] EXCEPT !.is_active = FALSE]

\* C6: setActiveTerminal(id) for an id in the registry makes that session the
\* only one with is_active = true and sets activeTerminalId = id, keeping the
\* order, ids, titles, directories and outputs; when id is already the active
\* session (activeTerminalId = id and its flag set) the registry is unchanged.
C6_ActivateKnown ==
    [][\A id \in Ids :
        (setActiveTerminal(id) /\ id \in KnownIds) =>
            /\ activeTerminalId' = id
            /\ Cardinality(ActiveIndices(terminals')) = 1
            /\ \A i \in ActiveIndices(terminals') : terminals'[i].id = id
            /\ SameButActive(terminals, terminals')
            /\ (activeTerminalId = id
                    /\ (\E i \in ActiveIndices(terminals) : terminals[i].id = id)
                => terminals' = terminals)]_vars

\* C7: each session has its own line editor. In particular a session that is
\* created under a fresh id while another session is shown comes up with an
\* empty buffer, cursor 0 and no history: nothing typed in the other session
\* is carried over.
C7_NewSessionHasOwnEditor ==
    [][(createTerminal(Undefined, Undefined) /\ Mounted
            /\ TerminalId(now) \notin KnownIds) =>
            /\ input' = <<>>
            /\ cursorPosition' = 0
            /\ commandHistory' = <<>>
            /\ historyIndex' = -1]_vars

\* C8: with a non-empty history, history-prev first shows the newest entry and
\* then older ones, and history-next past the newest entry leaves browsing and
\* restores the buffer exactly as it was before browsing began.
C8_HistoryRoundTrip ==
    [][/\ (KeyArrowUp /\ Len(commandHistory) > 0 /\ historyIndex = -1)
            => input' = commandHistory[Len(commandHistory)]
       /\ (KeyArrowUp /\ historyIndex > 0)
            => input' = commandHistory[historyIndex]
       /\ (KeyArrowDown /\ unsent # NoBrowse /\ historyIndex' = -1)
            => input' = unsent]_vars

\* C9: history holds no empty line and no two adjacent equal entries.
C9_HistoryNoEmptyNoAdjacentDuplicates ==
    \A i \in 1..Len(commandHistory) :
        /\ commandHistory[i] # <<>>
        /\ (i > 1 => commandHistory[i] # commandHistory[i - 1])

\* C10: submit with a non-empty buffer, whitespace-only included, browsing or
\* not, hands the buffer content to the input callback and leaves an empty
\* buffer, cursor 0 and history browsing exited.
C10_SubmitHandsOverAndClears ==
    [][(KeyEnter /\ input # <<>>) =>
            /\ last'.out = input
            /\ input' = <<>>
            /\ cursorPosition' = 0
            /\ historyIndex' = -1]_vars

\* C11: after any sequence of key events handled by the line editor,
\* 0 <= cursor <= length of the input buffer.
C11_CursorWithinBuffer == 0 <= cursorPosition /\ cursorPosition <= Len(input)

\* ArrowRight was the last key and the cursor is at the end of a full buffer
\* recalled from history: the upper bound is met.
C11_Witness ==
    /\ last.op = "ArrowRight"
    /\ historyIndex # -1
    /\ cursorPosition = Len(input)
    /\ Len(input) = MaxInput

\* a text is typed one key event per character; n Backspaces follow
RECURSIVE TypeText(_, _)
TypeText(e, s) == IF s = <<>> THEN e ELSE TypeText(TypeChar(e, Head(s)), Tail(s))
RECURSIVE BackspaceTimes(_, _)
BackspaceTimes(e, n) == IF n = 0 THEN e ELSE BackspaceTimes(BackspaceOnce(e), n - 1)
MaxText == 2
Texts == UNION {[1..n -> Chars] : n \in 1..MaxText}

\* C12: for every buffer and cursor position the editor can be in and every
\* text s, typing s at the cursor and then deleting Len(s) characters backward
\* restores the original buffer and the original cursor position.
C12_InsertThenDeleteBackwardRestores ==
    \A s \in Texts : BackspaceTimes(TypeText(Editor, s), Len(s)) = Editor

\* C13: history changes only by appending the submitted line at the end; the
\* only removal is the eviction of the oldest entry, which comes with such an
\* append. (Stated without the size limit: any eviction is let through.)
C13_HistoryAppendOnly ==
    [][\/ commandHistory' = commandHistory
       \/ \E line \in {input} : commandHistory' = Append(commandHistory, line)
       \/ /\ commandHistory # <<>>
          /\ \E line \in {input} : commandHistory' = Append(Tail(commandHistory), line)]_vars

\* terminal.scrollback_lines of the configuration (10000 by default), taken
\* small so that a session can be fed more lines than the limit
ScrollbackLines == 1

\* C14: whatever sendInput and executeCommand append, no session's output
\* holds more than scrollback_lines lines.
C14_OutputWithinScrollback ==
    \A i \in 1..Len(terminals) : Len(terminals[i].output) <= ScrollbackLines

\* C15: a session added by createTerminal stays in the registry until
\* closeTerminal is called with its id; no other store operation removes it.
C15_SessionStaysUntilClosed ==
    [][\A id \in KnownIds \ {BackendId} :
        id \in KnownIds' \/ closeTerminal(id)]_vars

\* an operation on one session leaves every other session of the list alone:
\* at most one place of the list changes, and neither the order of the list
\* nor activeTerminalId does
OthersUntouched ==
    /\ Len(terminals') = Len(terminals)
    /\ \A i \in 1..Len(terminals) : terminals'[i].id = terminals[i].id
    /\ \E target \in 0..Len(terminals) :
        \A j \in 1..Len(terminals) : j # target => terminals'[j] = terminals[j]
    /\ activeTerminalId' = activeTerminalId

\* C16: sendInput, executeCommand and clearOutput on session id X leave the
\* output, title, working directory and is_active flag of every other session
\* unchanged, and leave the order of the list and activeTerminalId unchanged.
C16_OutputOpsTouchOnlyTheirSession ==
    [][\A id \in Ids :
        /\ (\E c \in Commands : executeCommand(id, c)) => OthersUntouched
        /\ clearOutput(id) => OthersUntouched
        /\ (\E c \in Commands : sendInputStart(id, c)) => OthersUntouched
        /\ (\E k \in 1..Len(pending) :
                /\ pending[k].terminalId = id
                /\ sendInputResolve(k) \/ sendInputReject(k)) => OthersUntouched]_vars

\* C17: each toggle event delivered through the hotkey listener flips
\* visibility: hidden becomes visible and visible becomes hidden.
C17_ToggleFlipsVisibility ==
    [][HotkeyToggleWindow => isVisible' = ~isVisible]_vars

\* the visibility state App holds: isVisible is the only state there is
VisibilityState == IF isVisible THEN "Visible" ELSE "Hidden"
VisibilityStates == {"Hidden", "Revealing", "Visible", "Hiding"}
VisibilityCycle == {<<"Hidden", "Revealing">>, <<"Revealing", "Visible">>,
                    <<"Visible", "Hiding">>, <<"Hiding", "Hidden">>}

\* C18: after every processed trigger event the visibility state is one of
\* Hidden, Revealing, Visible, Hiding, and it only moves along
\* Hidden -> Revealing -> Visible -> Hiding -> Hidden.
C18_VisibilityMovesAlongCycle ==
    [][/\ VisibilityState' \in VisibilityStates
       /\ \/ VisibilityState' = VisibilityState
          \/ <<VisibilityState, VisibilityState'>> \in VisibilityCycle]_vars

\* a dwell reveal is committed: it starts, or it is queued behind a transition
RevealCommitted ==
    \/ visibility' # visibility
    \/ pendingToggle' # pendingToggle

\* C20: an edge-dwell timer causes a reveal only if the pointer stayed in the
\* edge zone for the full dwell_ms: the timer elapses, and its expiry commits
\* a reveal, only with the pointer in the zone since at least dwell_ms; when
\* the pointer leaves before dwell_ms has elapsed the timer is cancelled with
\* no visibility change and never elapses; and an expiry delivered after the
\* pointer has left the zone, whether or not it has come back, does not
\* reveal the terminal.
C20_DwellNeedsFullStay ==
    [][/\ TimerElapses => pointerInZone /\ now - inZoneSince >= DwellMs
       /\ (on_timer_elapsed /\ RevealCommitted) =>
            /\ pointerInZone
            /\ now - inZoneSince >= DwellMs
            /\ ~Head(events).left
       /\ (on_timer_elapsed /\ Head(events).left) => ~RevealCommitted
       /\ (/\ on_pointer_sample(FALSE)
           /\ Armed(dwellTimer)
           /\ now < dwellTimer.armed_at + DwellMs)
          => /\ dwellTimer'.cancelled
             /\ ~dwellTimer'.fired
             /\ visibility' = visibility
             /\ pendingToggle' = pendingToggle
       /\ (dwellTimer # <<>> /\ dwellTimer.cancelled) => ~TimerElapses
       /\ (visibility' = "Revealing" /\ visibility # "Revealing") =>
            \/ on_timer_elapsed
            \/ Settle /\ pendingToggle = "reveal"
       /\ (pendingToggle' = "reveal" /\ pendingToggle # "reveal") => on_timer_elapsed
      ]_vars

\* the timer of a first stay elapsed, the pointer left and came back, and the
\* expiry of the first stay was then delivered: the pointer is in the zone,
\* under a new arming, and the terminal is still hidden
C20_Witness ==
    /\ last = [op |-> "timer_elapsed", out |-> <<"stale">>]
    /\ pointerInZone
    /\ Armed(dwellTimer) /\ dwellTimer.timer_id = 2
    /\ visibility = "Hidden"
    /\ pendingToggle = "none"

\* C21 as stated: a quick_hide event and the Escape key leave the terminal
\* hidden whatever the visibility was, change nothing when it is already
\* hidden, and never reveal it.
C21_QuickHideAlwaysHides ==
    [][(HotkeyQuickHide \/ HotkeyEscape) =>
        /\ ~isVisible'
        /\ ~isVisible => UNCHANGED <<storeVars, editorVars, isVisible,
                                     isCommandPaletteOpen>>]_vars

\* C21 amended: both leave the terminal hidden whatever the visibility was
\* and never reveal it; when it is already hidden a quick_hide event changes
\* nothing, and the Escape key changes nothing but the command palette flag,
\* which it clears.
C21_HidesAndKeepsSessions ==
    [][/\ HotkeyQuickHide =>
            /\ ~isVisible'
            /\ ~isVisible => UNCHANGED <<storeVars, editorVars, isVisible,
                                         isCommandPaletteOpen>>
       /\ HotkeyEscape =>
            /\ ~isVisible'
            /\ ~isCommandPaletteOpen'
            /\ ~isVisible => UNCHANGED <<storeVars, editorVars, isVisible>>]_vars

\* the Escape key has run while the terminal was hidden and the palette flag
\* was still set (cmd+k, then quick_hide), over a registry that holds a session
C21_Witness ==
    /\ last = [op |-> "escape", out |-> <<FALSE, TRUE>>]
    /\ ~isVisible
    /\ ~isCommandPaletteOpen
    /\ Len(terminals) > 0

EnabledDefaults(ps) == {i \in 1..Len(ps) : ps[i].enabled /\ ps[i].default}

\* C22: after every provider mutation (loadProviders, addProvider,
\* removeProvider, setDefaultProvider) exactly one enabled provider has
\* default = true.
C22_ExactlyOneEnabledDefault ==
    [][(\/ \E k \in 1..MaxAppPending, answer \in ProviderLists :
              loadProvidersResolve(k, answer)
        \/ \E k \in 1..MaxAppPending : setDefaultProviderResolve(k))
       => Cardinality(EnabledDefaults(providers')) = 1]_vars

Defaults(ps) == {i \in 1..Len(ps) : ps[i].default}

\* C23: loading a provider configuration in which two providers are both
\* marked default is rejected: no provider of it becomes the default or
\* becomes usable for commands.
C23_TwoDefaultsRejected ==
    [][\A k \in 1..MaxAppPending, answer \in ProviderLists :
        (loadProvidersResolve(k, answer) /\ Cardinality(Defaults(answer)) > 1)
        => /\ providers' = providers
           /\ defaultProvider' = defaultProvider
           /\ appError' # NoError]_vars

EnabledIds(ps) == {ps[i].id : i \in {j \in 1..Len(ps) : ps[j].enabled}}

\* C24: for each submitted AI command exactly one provider is resolved: the
\* override when it names a known, enabled provider, the default provider when
\* no override is given; when no provider is enabled the command fails with
\* NoProviderError and no request is attempted.
C24_OneProviderResolved ==
    [][\A c \in Commands, id \in ProviderArgs :
        appExecuteCommandStart(c, id) =>
            IF EnabledIds(providers) = {}
            THEN /\ appPending' = appPending
                 /\ appError' = "NoProviderError"
            ELSE /\ Len(appPending') = Len(appPending) + 1
                 /\ id \in EnabledIds(providers)
                    => appPending'[Len(appPending')].arg.providerId = id
                 /\ id = NoProviderId
                    => appPending'[Len(appPending')].arg.providerId = defaultProvider]_vars

\* C25: a rejected sendInput is reported as a single error line in that
\* session's output and changes nothing else: the session list, the active
\* session, the other sessions' outputs and the visibility stay as before.
C25_FailureIsOneOutputLine ==
    [][\A k \in 1..MaxPending :
        (sendInputReject(k) /\ pending[k].terminalId \in KnownIds) =>
            /\ Len(terminals') = Len(terminals)
            /\ \A i \in 1..Len(terminals) :
                IF terminals[i].id = pending[k].terminalId
                THEN /\ Len(terminals'[i].output) = Len(terminals[i].output) + 1
                     /\ SubSeq(terminals'[i].output, 1, Len(terminals[i].output))
                            = terminals[i].output
                ELSE terminals'[i] = terminals[i]
            /\ activeTerminalId' = activeTerminalId
            /\ isVisible' = isVisible]_vars

RECURSIVE CountQuotes(_)
CountQuotes(line) ==
    IF line = <<>> THEN 0
    ELSE (IF Head(line) = Quote THEN 1 ELSE 0) + CountQuotes(Tail(line))

UnterminatedQuote(line) == CountQuotes(line) % 2 = 1

\* C26: a command line with an unterminated quote yields ParseError, which is
\* surfaced as session output and leaves the session's editor, history and
\* activity unchanged.
C26_UnterminatedQuoteIsParseError ==
    [][\A id \in Ids, line \in CommandLines :
        (executeCommand(id, line) /\ id \in KnownIds /\ UnterminatedQuote(line)) =>
            /\ \A i \in 1..Len(terminals) :
                terminals[i].id = id =>
                    terminals'[i].output = Append(terminals[i].output, <<"ParseError">>)
            /\ UNCHANGED <<editorVars, activeTerminalId>>]_vars

\* C27: activeTerminalId and the is_active flags always agree: a session has
\* is_active = true exactly when its id equals activeTerminalId.
C27_ActiveIdAgreesWithFlags ==
    \A i \in 1..Len(terminals) :
        terminals[i].is_active <=> terminals[i].id = activeTerminalId

\* C28: all sessions in the registry have pairwise distinct ids, also after
\* createTerminal calls made within the same clock millisecond; hence
\* closeTerminal(id) removes at most one session.
C28_DistinctIdsCloseRemovesOne ==
    /\ DistinctIds(terminals)
    /\ \A id \in Ids : Len(terminals) - Len(FilterOut(terminals, id)) <= 1

\* C29: a close_tab, next_tab or prev_tab event delivered through the
\* 'hotkey-triggered' listener acts on the registry as it is when the event
\* arrives: close_tab closes the session active at that moment, next_tab and
\* prev_tab activate its neighbour in the list.
C29_ListenerActsOnCurrentRegistry ==
    [][/\ (HotkeyCloseTab /\ activeTerminalId # Null)
            => terminals' = FilterOut(terminals, activeTerminalId)
       /\ (HotkeyNextTab /\ Len(terminals) > 0)
            => activeTerminalId' = terminals[NextIndex(terminals, activeTerminalId) + 1].id
       /\ (HotkeyPrevTab /\ Len(terminals) > 0 /\ activeTerminalId \in KnownIds)
            => activeTerminalId' = terminals[PrevIndex(terminals, activeTerminalId) + 1].id]_vars

\* C30: under any interleaving of sendInput, executeCommand and closeTerminal,
\* a sendInput that completes for a session still in the registry adds its
\* line to that session's output exactly once, and one that completes after
\* its session was closed neither re-creates the session nor changes any
\* other session.
C30_CompletionTouchesOnlyItsLiveSession ==
    [][\A k \in 1..MaxPending :
        sendInputResolve(k) =>
            /\ Len(terminals') = Len(terminals)
            /\ \A i \in 1..Len(terminals) :
                terminals'[i] =
                    IF terminals[i].id = pending[k].terminalId /\ ~pending[k].closed
                    THEN [terminals[i] EXCEPT
                            !.output = Append(@, InputLine(pending[k].input))]
                    ELSE terminals[i]]_vars

\* C31: the terminal store's isLoading flag is true whenever one of the
\* store's asynchronous actions is still in flight; it is false only when
\* none is pending.
C31_LoadingWhileInFlight == pending # <<>> => isLoading

ProviderIdsOf(ps) == {ps[i].id : i \in 1..Len(ps)}

\* C32: defaultProvider and the providers list always agree: after
\* loadProviders or a successful setDefaultProvider(id) the provider with
\* default = true is exactly the one whose id equals defaultProvider, and
\* defaultProvider is null or the id of a provider in the list.
C32_DefaultProviderAgreesWithList ==
    [][(\/ \E k \in 1..MaxAppPending, answer \in ProviderLists :
              loadProvidersResolve(k, answer)
        \/ \E k \in 1..MaxAppPending : setDefaultProviderResolve(k))
       => /\ \A i \in 1..Len(providers') :
                providers'[i].default <=> providers'[i].id = defaultProvider'
          /\ defaultProvider' \in ProviderIdsOf(providers') \cup {Null}]_vars

NextTabEvent == HotkeyNextTab \/ \E latest \in BOOLEAN : HotkeyCmdShiftRight(latest)
PrevTabEvent == HotkeyPrevTab \/ \E latest \in BOOLEAN : HotkeyCmdShiftLeft(latest)

\* C33: with a non-empty registry whose active session is in the list,
\* next_tab activates the session right after the active one in registry order
\* (wrapping from last to first) and prev_tab the one right before (wrapping
\* from first to last); with an empty registry both change nothing.
C33_TabSwitchFollowsRegistryOrder ==
    [][/\ (NextTabEvent /\ activeTerminalId \in KnownIds)
            => activeTerminalId' = terminals[NextIndex(terminals, activeTerminalId) + 1].id
       /\ (PrevTabEvent /\ activeTerminalId \in KnownIds)
            => activeTerminalId' = terminals[PrevIndex(terminals, activeTerminalId) + 1].id
       /\ ((NextTabEvent \/ PrevTabEvent) /\ terminals = <<>>)
            => UNCHANGED <<terminals, activeTerminalId>>]_vars

\* C34: useAsyncWithRetry.execute invokes the async function at most
\* retries + 1 times, stops at the first success and returns its result, and
\* after retries + 1 consecutive failures rethrows the last error without a
\* further invocation.
C34_RetryBounded ==
    [][/\ retryHook'.invocations <= Retries + 1
       /\ \A result \in Results :
            retryResolved(result)
            => /\ retryHook'.phase = "returned"
               /\ last'.out = result
               /\ retryHook'.invocations = retryHook.invocations
       /\ retryRejected
            => /\ retryHook'.invocations = retryHook.invocations
               /\ (retryHook'.phase = "thrown" /\ last'.out = <<"throws">>)
                    <=> retryHook.invocations = Retries + 1
       /\ retryHook.phase \in {"returned", "thrown"}
            => (retryHook'.invocations = retryHook.invocations \/ retryExecute)
       /\ (retryDelayElapsed \/ retryExecute) => retryHook'.phase = "awaiting"]_vars

\* execute has thrown after retries + 1 invocations that all failed
C34_Witness ==
    /\ retryHook.phase = "thrown"
    /\ retryHook.invocations = Retries + 1
    /\ retryHook.currentRetry = Retries
    /\ last = [op |-> "retry rejected", out |-> <<"throws">>]

\* C35: once an execute call of an async hook has settled, by success or by
\* failure, and no other call is in flight, loading is false.
C35_SettledMeansNotLoading ==
    retryHook.phase \in {"returned", "thrown"} => ~retryHook.loading

\* what an execute step did: answered from the map, or called the function
C36_ServedFromCache(args) ==
    /\ Len(cacheHook'.calls) = Len(cacheHook.calls)
    /\ last'.out = cacheHook.cache[KeyOf(args)].data

C36_Invoked(args) ==
    /\ cacheHook'.calls = Append(cacheHook.calls, [key |-> KeyOf(args), args |-> args])
    /\ cacheHook'.cache = cacheHook.cache

\* C36: useAsyncWithCache.execute returns the stored value without invoking
\* the async function exactly when the key has an entry younger than ttl;
\* otherwise it invokes the function once, and the result is stored with
\* the current time on success only; the first execute for a key after
\* invalidateCache(key) or clearCache invokes the function.
C36_CacheContract ==
    [][/\ \A args \in CacheArgs :
            cacheExecute(args) =>
                /\ IF CacheHit(cacheHook.cache, KeyOf(args), now)
                   THEN C36_ServedFromCache(args)
                   ELSE C36_Invoked(args)
                /\ KeyOf(args) \in cacheHook.invalidated => C36_Invoked(args)
       /\ \A i \in 1..MaxCacheCalls :
            /\ \A result \in Results :
                cacheResolved(i, result) =>
                    cacheHook'.cache[cacheHook.calls[i].key] =
                        [data |-> result, timestamp |-> now]
            /\ cacheRejected(i) => cacheHook'.cache = cacheHook.cache
      ]_vars

CallMade(c) == c <= Len(debounceHook.calls)

Fired(c) == CallMade(c) /\ debounceHook.calls[c].state \in {"running", "resolved", "rejected"}

\* call c was superseded by a later execute, or dropped by cancel()
Withdrawn(c) == CallMade(c) /\ debounceHook.calls[c].state \in {"superseded", "cancelled"}

\* call c + 1 came less than delay after call c
FollowedWithinDelay(c) ==
    /\ CallMade(c + 1)
    /\ debounceHook.calls[c + 1].at - debounceHook.calls[c].at < Delay

C37_OnlyTheLastOfABurst ==
    \A c \in 1..MaxCalls :
        /\ FollowedWithinDelay(c) => ~Fired(c)
        /\ Fired(c) =>
            /\ debounceHook.calls[c].invokedWith = debounceHook.calls[c].args
            /\ debounceHook.calls[c].invokedAt >= debounceHook.calls[c].at + Delay
        /\ CallMade(c) /\ debounceHook.calls[c].state = "cancelled" =>
            debounceHook.calls[c].invokedWith = Null

\* C37: of execute calls that each come less than delay after the one
\* before, only the last one has the async function invoked, once, with
\* its own arguments and not before delay has passed since it; a call whose
\* timer cancel() cleared is never invoked; a call that is neither
\* superseded by a later execute nor cancelled is invoked in the end.
C37_DebouncedOnce ==
    /\ []C37_OnlyTheLastOfABurst
    /\ \A c \in 1..MaxCalls : CallMade(c) ~> (Fired(c) \/ Withdrawn(c))

PromisePending(c) ==
    CallMade(c) /\ debounceHook.calls[c].state \in {"waiting", "superseded", "cancelled", "dropped", "running"}

\* C38: every promise returned by useAsyncDebounced.execute settles in the
\* end, those of superseded and cancelled calls included.
C38_EveryPromiseSettles ==
    \A c \in 1..MaxCalls : PromisePending(c) ~> ~PromisePending(c)


====
